---- MODULE Spec2Model ----
(***************************************************************************)
(* Model of potranslator's batching and dispatch core:                     *)
(*   Translator.count_chars, Translator.make_batches, Translator.translate *)
(*   (src/potranslator/gcloudtranslator.py) and the try-block of           *)
(*   PoTranslator.translate (src/potranslator/potranslator.py).            *)
(*                                                                         *)
(* A string is modelled as a run of one character, [ch, len] ("x"*40000);  *)
(* len(s) is its len field.  The remote service's translation of s is the  *)
(* uninterpreted value <<"translated", s>>.                                *)
(***************************************************************************)
EXTENDS Integers, Sequences, FiniteSets

\* ------------------------------------------------------------ bounds
MaxUnits == 3

\* ------------------------------------------------------------ constants
mins == 5000
maxs == 30000

Chars == {"x", "y"}
Lens == {0, 1, 5000, 40000, 55000}

\* The strings the model draws its inputs from ("" has no character).
Strings == {s \in [ch : Chars, len : Lens] : s.len = 0 => s.ch = "x"}

BoundedSeq(S, n) == UNION {[1..m -> S] : m \in 0..n}

\* The exceptions the remote call may raise.
CollaboratorErrors == {"GoogleAPICallError", "JSONDecodeError"}

\* translate has handed nothing back to its caller.
NoValue == [has |-> FALSE, value |-> <<>>]
NoText == <<>>
NoError == [kind |-> "none"]

VARIABLES
    pc,               \* position of the single thread of control
    trans_text,       \* the list handed to Translator.translate
    idx, acc,         \* count_chars: r[0] of the next item, r[1] of the previous
    steps, cutoffs,   \* count_chars locals
    printed,          \* the "single string element too long" lines printed
    lastBranch,       \* the branch the last count_chars iteration took
    x, rest, bi,      \* make_batches locals (bi: et[0] of the next item)
    contents,         \* the one list object behind template_request["contents"]
    request_batches,  \* per request, which list object its "contents" refers to
    calls,            \* remote calls issued so far, in issue order
    inflight,         \* indices of calls issued and not yet answered
    result,           \* Translator.translate's local result list
    malformed,        \* some response carried fewer translations than strings
    raised,           \* the exception leaving Translator.translate
    returned,         \* the value Translator.translate returned
    msgstr            \* msgstr of the untranslated catalog entries

vars == <<pc, trans_text, idx, acc, steps, cutoffs, printed, lastBranch, x, rest,
          bi, contents, request_batches, calls, inflight, result, malformed,
          raised, returned, msgstr>>

scanVars == <<idx, acc, steps, cutoffs, printed, lastBranch>>
batchVars == <<x, rest, bi, contents, request_batches>>
sendVars == <<calls, inflight, result, malformed>>
callerVars == <<raised, returned, msgstr>>

\* ------------------------------------------------------------ helpers
StrLen(s) == s.len

Last(q) == q[Len(q)]

RECURSIVE SumLen(_)
SumLen(q) == IF q = <<>> THEN 0 ELSE StrLen(Head(q)) + SumLen(Tail(q))

RECURSIVE Flatten(_)
Flatten(qq) == IF qq = <<>> THEN <<>> ELSE Head(qq) \o Flatten(Tail(qq))

\* ------------------------------------------------------------ count_chars
SoftCut(c, st) == c >= mins * st /\ c < maxs * st

HardCut(c, st) == c >= mins * st /\ c >= maxs * st

SteppedCutBefore2(i) == i - 2
SteppedCutAtCurrent(i) == i
SteppedCut(i) == i - 1

FinalCut(t) == Len(t)

Init ==
    /\ pc = "idle"
    /\ trans_text = <<>>
    /\ idx = 0 /\ acc = 0 /\ steps = 1 /\ cutoffs = <<>>
    /\ printed = <<>> /\ lastBranch = "none"
    /\ x = 0 /\ rest = <<>> /\ bi = 0
    /\ contents = <<>> /\ request_batches = <<>>
    /\ calls = <<>> /\ inflight = {} /\ result = <<>> /\ malformed = FALSE
    /\ raised = NoError /\ returned = NoValue /\ msgstr = <<>>

\* Translator.translate is entered with a list of strings (the list may be
\* empty when translate is called directly; PoTranslator.translate calls it
\* only with a non-empty list).  make_batches builds the request template and
\* calls count_chars, whose locals are initialised.  The isinstance(str)
\* branch of translate is not taken for a list and is left out.
Call ==
    /\ pc = "idle"
    /\ \E t \in BoundedSeq(Strings, MaxUnits) :
        /\ trans_text' = t
        /\ msgstr' = [i \in 1..Len(t) |-> NoText]
    /\ pc' = "scan"
    /\ UNCHANGED <<scanVars, batchVars, sendVars, raised, returned>>

\* One iteration of count_chars' loop over the accumulated lengths.
ScanStep ==
    /\ pc = "scan"
    /\ idx < Len(trans_text)
    /\ LET c == acc + StrLen(trans_text[idx + 1]) IN
        /\ acc' = c
        /\ idx' = idx + 1
        /\ IF SoftCut(c, steps)
           THEN /\ cutoffs' = Append(cutoffs, idx)
                /\ steps' = steps + 1
                /\ lastBranch' = "soft"
                /\ UNCHANGED printed
           ELSE IF HardCut(c, steps)
           THEN IF steps > 1
                THEN /\ cutoffs' = Append(cutoffs, SteppedCut(idx))
                     /\ steps' = steps + 1
                     /\ lastBranch' = "hardStepped"
                     /\ UNCHANGED printed
                ELSE /\ cutoffs' = Append(cutoffs, idx)
                     /\ printed' = Append(printed, c)
                     /\ lastBranch' = "hardFirst"
                     /\ UNCHANGED steps
           ELSE /\ lastBranch' = "skip"
                /\ UNCHANGED <<cutoffs, steps, printed>>
    /\ UNCHANGED <<pc, trans_text, batchVars, sendVars, callerVars>>

\* ------------------------------------------------------------ make_batches
TakesUnit(xx, i) == xx < i

\* The list object a request's "contents" key refers to.
Deref(ref) == IF ref = "template" THEN contents ELSE trans_text

\* count_chars appends the final cut and returns; make_batches takes the
\* returned list as cuts and either falls back to one request holding
\* trans_text itself or starts its loop over trans_text.
ScanEnd ==
    /\ pc = "scan"
    /\ idx = Len(trans_text)
    /\ LET cuts == Append(cutoffs, FinalCut(trans_text)) IN
        /\ cutoffs' = cuts
        /\ IF Len(cuts) < 1
           THEN /\ request_batches' = Append(request_batches, "trans_text")
                /\ pc' = "dispatch"
                /\ UNCHANGED <<x, rest>>
           ELSE /\ x' = Head(cuts)
                /\ rest' = Tail(cuts)
                /\ pc' = "batch"
                /\ UNCHANGED request_batches
    /\ UNCHANGED <<trans_text, idx, acc, steps, printed, lastBranch, bi, contents,
                   sendVars, callerVars>>

\* One iteration of make_batches' loop over enumerate(trans_text).
BatchStep ==
    /\ pc = "batch"
    /\ bi < Len(trans_text)
    /\ bi' = bi + 1
    /\ IF TakesUnit(x, bi)
       THEN /\ contents' = Append(contents, trans_text[bi + 1])
            /\ request_batches' = Append(request_batches, "template")
            /\ UNCHANGED <<x, rest>>
       ELSE /\ IF Len(rest) > 0
               THEN x' = Head(rest) /\ rest' = Tail(rest)
               ELSE UNCHANGED <<x, rest>>
            /\ UNCHANGED <<contents, request_batches>>
    /\ UNCHANGED <<pc, trans_text, scanVars, sendVars, callerVars>>

\* make_batches returns request_batches; translate sets up the lazy map.
BatchEnd ==
    /\ pc = "batch"
    /\ bi = Len(trans_text)
    /\ pc' = "dispatch"
    /\ UNCHANGED <<trans_text, scanVars, batchVars, sendVars, callerVars>>

\* ------------------------------------------------------------ translate
\* What the remote service answers for one submitted string.
TranslatedOf(s) == <<"translated", s>>

\* TranslatedText.__init__: text is the translation's translated_text.
TranslatedText(tr) == [text |-> tr]

\* toolz.map is lazy: the for loop pulls the next response, and so issues the
\* next translate_text call, only when the previous response is consumed.
MayIssueEager == pc \in {"dispatch", "waiting"}
MayIssue == pc = "dispatch"

\* The request the lazy map hands to translate_text next.
NextRequest == Len(calls)

\* The loop asks for the next response: translate_text is called and blocks.
IssueCall ==
    /\ MayIssue
    /\ Len(calls) < Len(request_batches)
    /\ LET j == NextRequest IN
        /\ calls' = Append(calls, [index |-> j,
                                   contents |-> Deref(request_batches[j + 1])])
        /\ inflight' = inflight \cup {Len(calls)}
    /\ pc' = "waiting"
    /\ UNCHANGED <<trans_text, scanVars, batchVars, result, malformed, callerVars>>

Translations(c) == [i \in 1..Len(c) |-> TranslatedOf(c[i])]

\* What the inner loop appends for one response.
Collect(translations) ==
    [i \in 1..Len(translations) |-> TranslatedText(translations[i])]

\* The call returns one translation per submitted string, in submitted order;
\* the inner loop appends a TranslatedText for each.
RespondOK ==
    /\ pc = "waiting"
    /\ \E j \in inflight :
        /\ result' = result \o Collect(Translations(calls[j + 1].contents))
        /\ inflight' = inflight \ {j}
    /\ pc' = "dispatch"
    /\ UNCHANGED <<trans_text, scanVars, batchVars, calls, malformed, callerVars>>

\* The call returns a response that lacks the last translation; the inner loop
\* appends what is there.
RespondShort ==
    /\ pc = "waiting"
    /\ \E j \in inflight :
        LET c == calls[j + 1].contents IN
        /\ Len(c) > 0
        /\ result' = result \o Collect(SubSeq(Translations(c), 1, Len(c) - 1))
        /\ inflight' = inflight \ {j}
    /\ malformed' = TRUE
    /\ pc' = "dispatch"
    /\ UNCHANGED <<trans_text, scanVars, batchVars, calls, callerVars>>

\* The exception as it leaves Translator.translate: no handler touches it.
Raised(e, k) == [kind |-> e]

\* `return result`.
ReturnValue(r) == [has |-> TRUE, value |-> r]

\* What Translator.translate hands back when an exception leaves it.
ReturnedPartial(r) == ReturnValue(r)
ReturnedOnRaise(r) == NoValue

\* The call raises: the exception leaves the loop and Translator.translate.
RespondRaise ==
    /\ pc = "waiting"
    /\ \E j \in inflight, e \in CollaboratorErrors :
        /\ raised' = Raised(e, j)
        /\ inflight' = inflight \ {j}
    /\ returned' = ReturnedOnRaise(result)
    /\ pc' = "raised"
    /\ UNCHANGED <<trans_text, scanVars, batchVars, calls, result, malformed, msgstr>>

\* The responses are exhausted: return result.
Return ==
    /\ pc = "dispatch"
    /\ Len(calls) = Len(request_batches)
    /\ returned' = ReturnValue(result)
    /\ pc' = "returned"
    /\ UNCHANGED <<trans_text, scanVars, batchVars, sendVars, raised, msgstr>>

\* ------------------------------------------------------------ PoTranslator.translate
\* zip(untranslated, translations): pairs up to the shorter of the two.
ZipLen(n, m) == IF n < m THEN n ELSE m

\* The try-block after the call returned; entered only `if untranslated:`.
Zip ==
    /\ pc = "returned"
    /\ trans_text # <<>>
    /\ msgstr' = [i \in 1..Len(trans_text) |->
                    IF i <= ZipLen(Len(trans_text), Len(returned.value))
                    THEN returned.value[i].text ELSE msgstr[i]]
    /\ pc' = "retrieved"
    /\ UNCHANGED <<trans_text, scanVars, batchVars, sendVars, raised, returned>>

\* except JSONDecodeError: the failure is printed and the method goes on.
Catch ==
    /\ pc = "raised"
    /\ raised.kind = "JSONDecodeError"
    /\ pc' = "not_retrieved"
    /\ UNCHANGED <<trans_text, scanVars, batchVars, sendVars, callerVars>>

\* Any other exception leaves PoTranslator.translate.
Propagate ==
    /\ pc = "raised"
    /\ raised.kind # "JSONDecodeError"
    /\ pc' = "aborted"
    /\ UNCHANGED <<trans_text, scanVars, batchVars, sendVars, callerVars>>

Next ==
    \/ Call \/ ScanStep \/ ScanEnd \/ BatchStep \/ BatchEnd
    \/ IssueCall \/ RespondOK \/ RespondShort \/ RespondRaise \/ Return
    \/ Zip \/ Catch \/ Propagate

Spec == Init /\ [][Next]_vars

\* ------------------------------------------------------------ properties
\* make_batches has returned its plan.
Planned == pc \notin {"idle", "scan", "batch"}

\* The contents of each planned request, in request order.
Batches == [j \in 1..Len(request_batches) |-> Deref(request_batches[j])]

Failed == pc \in {"raised", "not_retrieved", "aborted"}

\* The count_chars iteration about to run takes the second branch (the total
\* has reached maxs * steps) with a soft cut already recorded (steps > 1).
HardStepDue ==
    /\ pc = "scan"
    /\ idx < Len(trans_text)
    /\ HardCut(acc + StrLen(trans_text[idx + 1]), steps)
    /\ steps > 1

\* C1: for a non-empty input, the planned batches concatenated in batch order
\* equal the input list (no loss, no duplication, no reordering).
C1_BatchesReconstructUnits ==
    (Planned /\ trans_text # <<>>) => Flatten(Batches) = trans_text

\* C2: when every response carried one translation per submitted string, the
\* list translate returns has one entry per input unit, entry i being the
\* translation of unit i, and the zip gives every entry its own translation.
C2_ResultsAlignWithUnits ==
    /\ (pc \in {"returned", "retrieved"} /\ ~malformed) =>
            /\ returned.has
            /\ Len(returned.value) = Len(trans_text)
            /\ \A i \in 1..Len(trans_text) :
                    returned.value[i] = TranslatedText(TranslatedOf(trans_text[i]))
    /\ (pc = "retrieved" /\ ~malformed) =>
            \A i \in 1..Len(trans_text) : msgstr[i] = TranslatedOf(trans_text[i])

\* C3: every planned batch totals at most maxs characters, unless it is a
\* single unit that is itself longer than maxs.
C3_BatchWithinMax ==
    Planned =>
        \A j \in 1..Len(Batches) :
            \/ SumLen(Batches[j]) <= maxs
            \/ Len(Batches[j]) = 1 /\ StrLen(Batches[j][1]) > maxs

C5_SmallInputOneBatch ==
    (Planned /\ trans_text # <<>> /\ SumLen(trans_text) < mins) =>
        /\ Len(Batches) = 1
        /\ Batches[1] = trans_text

\* C6: every unit longer than maxs is planned as a batch of its own, and a
\* warning is printed.
C6_OversizedUnitAlone ==
    Planned =>
        \A i \in 1..Len(trans_text) :
            StrLen(trans_text[i]) > maxs =>
                /\ \E j \in 1..Len(Batches) : Batches[j] = <<trans_text[i]>>
                /\ printed # <<>>

C9_CutAtLastCandidate ==
    [][HardStepDue =>
            /\ Len(cutoffs') = Len(cutoffs) + 1
            /\ Last(cutoffs') = Last(cutoffs)]_vars

\* C9 (amended): when the cumulative total from the start of the list reaches
\* maxs * steps with a soft cut already recorded (steps > 1), the cut emitted
\* is the index just before the current position, which is not the current
\* position and not below the most recently recorded cut.
C9_CutBeforeCurrent ==
    [][HardStepDue =>
            /\ Len(cutoffs') = Len(cutoffs) + 1
            /\ Last(cutoffs') = idx - 1
            /\ Last(cutoffs') # idx
            /\ Last(cutoffs') >= Last(cutoffs)
            /\ steps' = steps + 1]_vars

\* The stepped branch has just cut past the most recently recorded cut.
C9_Witness ==
    /\ pc = "scan"
    /\ lastBranch = "hardStepped"
    /\ Len(cutoffs) >= 2
    /\ Last(cutoffs) > cutoffs[Len(cutoffs) - 1]

\* C10: the cut list count_chars returns is never empty, ends with the number
\* of units, holds only indices in 0..n in non-decreasing order, and so
\* make_batches never takes its `len(cuts) < 1` branch.
C10_CutsWellFormed ==
    pc \notin {"idle", "scan"} =>
        /\ Len(cutoffs) >= 1
        /\ Last(cutoffs) = Len(trans_text)
        /\ \A j \in 1..Len(cutoffs) : cutoffs[j] \in 0..Len(trans_text)
        /\ \A j \in 1..(Len(cutoffs) - 1) : cutoffs[j] <= cutoffs[j + 1]
        /\ \A j \in 1..Len(request_batches) : request_batches[j] # "trans_text"

\* count_chars returned a list holding a soft cut, a stepped cut and the
\* final cut.
C10_Witness ==
    /\ pc = "batch"
    /\ Len(cutoffs) >= 3
    /\ cutoffs[1] = cutoffs[2]
    /\ steps > 2
====
